---- MODULE Spec2Model ----
(***************************************************************************)
(* The SMART node firmware: four single-loop Arduino sketches that sample  *)
(* sensors, append CSV lines to a log on an SD card and serve the log as   *)
(* an HTML table over a WiFi access point.                                 *)
(*                                                                         *)
(*   "SMART"     src/firmware/SMART.ino                  (dual sensor)     *)
(*   "SevenDay"  src/firmware/SMARTnew.ino lines   1-247 (dual sensor)     *)
(*   "Download"  src/firmware/SMARTnew.ino lines 249-493                   *)
(*   "Basic"     src/firmware/SMARTnew.ino lines 495-747                   *)
(*                                                                         *)
(* Text is modelled character by character: an Arduino String, a log line  *)
(* and a request are sequences of one-character strings.  A float is NaN   *)
(* or a number of hundredths (the two decimals Print::print(float) shows). *)
(* Time is counted in units of Unit milliseconds, so that the unsigned     *)
(* 32-bit counter millis() is a counter modulo Wrap = 2^32 / Unit.         *)
(***************************************************************************)
EXTENDS Integers, Sequences, FiniteSets, TLC

VARIABLES
  sketch,          \* which of the four sketches runs on the device
  pc,              \* position of the single thread of control
  logFile,         \* the lines of datalog.csv / data.txt on the SD card
  rtc,             \* the real-time clock's current date and time
  millis,          \* the millisecond counter, in units of Unit ms
  previousMillis,  \* the sketch's global previousMillis, in the same units
  currentTime,     \* RTCTime currentTime read at the top of loop()
  boots,           \* number of restarts so far
  conn,            \* state of the connection accepted in this loop iteration
  connected,       \* what client.connected() returns
  req,             \* the characters the client has sent on the connection
  rx,              \* how many of them the sketch has read
  currentLine,     \* String currentLine
  request,         \* String request (download sketch)
  resp,            \* what has been sent to the client on this connection
  lastLog,         \* the inputs and outcome of the logging attempt just made
  band,            \* the arguments of a call of colorIndicator
  color,           \* what the call returned
  lastSetup,       \* the failures the run of setup just made met
  lastServe,       \* the inputs of the response just sent
  prevPage,        \* the page (less live readings) of the last connection
  attempt          \* real time since, and outcome of, the last log attempt,
                   \* and how many attempts this boot has made

vars == <<sketch, pc, logFile, rtc, millis, previousMillis, currentTime, boots,
          conn, connected, req, rx, currentLine, request, resp, lastLog,
          band, color, lastSetup, lastServe, prevPage, attempt>>

Sketches == {"SMART", "SevenDay", "Download", "Basic"}

DualSensor(s) == s \in {"SMART", "SevenDay"}

-----------------------------------------------------------------------------
(* Bounds of the model.                                                    *)

MaxLines == 3       \* the log holds at most this many lines

MaxBoots == 2       \* at most this many restarts after the first startup

MaxCount == 2       \* the attempts of a boot are counted up to this many

-----------------------------------------------------------------------------
(* Arduino String operations, on sequences of characters, 0-based as in    *)
(* the code.  An index of -1 passed as an unsigned int is UINT_MAX, which  *)
(* is beyond the end of every string.                                      *)

Min(a, b) == IF a < b THEN a ELSE b

AsUnsigned(i, len) == IF i < 0 THEN len + 1 ELSE i

\* String::indexOf(char ch, unsigned int fromIndex): -1 when not found
RECURSIVE indexOf(_, _, _)
indexOf(s, ch, from) ==
  IF from < 0 \/ from >= Len(s) THEN -1
  ELSE IF s[from + 1] = ch THEN from
  ELSE indexOf(s, ch, from + 1)

\* String::substring(unsigned int left, unsigned int right)
substring(s, left, right) ==
  LET l0 == AsUnsigned(left, Len(s))
      r0 == AsUnsigned(right, Len(s))
      l  == IF l0 > r0 THEN r0 ELSE l0
      r1 == IF l0 > r0 THEN l0 ELSE r0
      r  == Min(r1, Len(s))
  IN  IF l >= Len(s) THEN <<>> ELSE SubSeq(s, l + 1, r)

\* String::substring(unsigned int left)
substringFrom(s, left) == substring(s, left, Len(s))

\* String::startsWith(const String &prefix)
startsWith(s, prefix) ==
  /\ Len(s) >= Len(prefix)
  /\ SubSeq(s, 1, Len(prefix)) = prefix

\* String::indexOf(const String &str) >= 0
RECURSIVE containsAt(_, _, _)
containsAt(s, pat, from) ==
  IF from + Len(pat) > Len(s) THEN FALSE
  ELSE IF SubSeq(s, from + 1, from + Len(pat)) = pat THEN TRUE
  ELSE containsAt(s, pat, from + 1)

contains(s, pat) == containsAt(s, pat, 0)

Digits == <<"0", "1", "2", "3", "4", "5", "6", "7", "8", "9">>

IsDigit(c) == \E i \in 1..10 : Digits[i] = c

DigitVal(c) == (CHOOSE i \in 1..10 : Digits[i] = c) - 1

\* String::toInt(): atol, the leading decimal digits (0 when there are none)
RECURSIVE atol(_, _, _)
atol(s, i, acc) ==
  IF i > Len(s) \/ ~IsDigit(s[i]) THEN acc
  ELSE atol(s, i + 1, acc * 10 + DigitVal(s[i]))

toInt(s) == atol(s, 1, 0)

\* Print::print(int), for n >= 0
RECURSIVE printInt(_)
printInt(n) ==
  IF n < 10 THEN <<Digits[n + 1]>>
  ELSE printInt(n \div 10) \o <<Digits[(n % 10) + 1]>>

\* "%02d"
print02(n) == IF n < 10 THEN <<"0">> \o printInt(n) ELSE printInt(n)

\* A float: not-a-number, or a number of hundredths.
NaN == [nan |-> TRUE, c |-> 0]

Float(hundredths) == [nan |-> FALSE, c |-> hundredths]

isnan(v) == v.nan

\* IEEE comparisons: every comparison with a NaN is false
FloatEq(a, b) == ~a.nan /\ ~b.nan /\ a.c = b.c

FloatGeq(a, b) == ~a.nan /\ ~b.nan /\ a.c >= b.c

FloatLeq(a, b) == ~a.nan /\ ~b.nan /\ a.c <= b.c

\* Print::print(float): two decimals, "nan" for not-a-number
printFloat(v) ==
  IF isnan(v) THEN <<"n", "a", "n">>
  ELSE LET a == IF v.c < 0 THEN -v.c ELSE v.c
       IN  (IF v.c < 0 THEN <<"-">> ELSE <<>>)
             \o printInt(a \div 100) \o <<".">>
             \o <<Digits[((a % 100) \div 10) + 1], Digits[(a % 10) + 1]>>

-----------------------------------------------------------------------------
(* Time.  millis() is an unsigned 32-bit count of milliseconds; the model  *)
(* counts in units of Unit ms, which divides both intervals, the setup     *)
(* delay and 2^32, so the counter wraps modulo Wrap.                       *)

Unit == 16

Wrap == 2 ^ 28    \* 2^32 / Unit

intervalSMART == 900000

intervalSevenDay == 3600000

intervalDownload == 900000

intervalBasic == 900000

setupDelay == 10000

interval(s) ==
  CASE s = "SMART"    -> intervalSMART \div Unit
    [] s = "SevenDay" -> intervalSevenDay \div Unit
    [] s = "Download" -> intervalDownload \div Unit
    [] s = "Basic"    -> intervalBasic \div Unit

\* The difference taken on signed integers, which is negative after a wrap
elapsedMillisSigned(currentMillis, prevMillis) == currentMillis - prevMillis

\* currentMillis - previousMillis on unsigned long
elapsedMillis(currentMillis, prevMillis) ==
  (currentMillis - prevMillis + Wrap) % Wrap

\* A date and time, as DateTime (RTClib) and RTCTime (RTC.h) hold it
DateTime(y, m, d, hh, mm, ss) ==
  [y |-> y, m |-> m, d |-> d, hh |-> hh, mm |-> mm, ss |-> ss]

daysInMonth == <<31, 28, 31, 30, 31, 30, 31, 31, 30, 31, 30, 31>>

RECURSIVE daysBeforeMonth(_)
daysBeforeMonth(m) ==
  IF m <= 1 THEN 0 ELSE daysInMonth[m - 1] + daysBeforeMonth(m - 1)

\* RTClib date2days: days since 2000-01-01
date2days(year, m, d) ==
  LET y == IF year >= 2000 THEN year - 2000 ELSE year
  IN  d + daysBeforeMonth(m)
        + (IF m > 2 /\ y % 4 = 0 THEN 1 ELSE 0)
        + 365 * y + ((y + 3) \div 4) - 1

\* RTClib DateTime::secondstime: seconds since 2000-01-01
secondstime(t) ==
  ((date2days(t.y, t.m, t.d) * 24 + t.hh) * 60 + t.mm) * 60 + t.ss

\* C integer division, which truncates toward zero
cdiv(a, b) == IF a >= 0 THEN a \div b ELSE -((-a) \div b)

\* (now - entryDate).days(): TimeSpan::days of DateTime::operator-
diffDays(now, entryDate) ==
  cdiv(secondstime(now) - secondstime(entryDate), 86400)

\* The startTime the download and basic sketches set the RTC to in setup
startTime(s) ==
  IF s = "Download" THEN DateTime(2025, 4, 17, 15, 52, 0)
  ELSE DateTime(2023, 7, 16, 10, 14, 3)

\* The instants at which the model looks at the clocks, in order.  Their
\* gaps are whole numbers of units; each sketch has a gap longer and a gap
\* shorter than its interval.
Clock(s) ==
  CASE DualSensor(s) ->
         <<DateTime(2025, 6, 2, 13, 0, 0), DateTime(2025, 6, 2, 14, 0, 10),
           DateTime(2025, 6, 9, 23, 59, 58), DateTime(2025, 6, 10, 0, 0, 0)>>
    [] s = "Download" ->
         <<startTime(s), DateTime(2025, 4, 17, 16, 7, 4),
           DateTime(2025, 4, 17, 16, 7, 6)>>
    [] s = "Basic" ->
         <<startTime(s), DateTime(2023, 7, 16, 10, 29, 5),
           DateTime(2023, 7, 16, 10, 29, 7)>>

ClockIndex(s, t) == CHOOSE i \in 1..Len(Clock(s)) : Clock(s)[i] = t

\* Milliseconds between two instants, in units
unitsBetween(t1, t2) == ((secondstime(t2) - secondstime(t1)) * 1000) \div Unit

-----------------------------------------------------------------------------
(* Sensors.  The DHT library gives NaN for a failed read; the DS18B20      *)
(* library gives DEVICE_DISCONNECTED_C (-127) for a missing probe.         *)

DEVICE_DISCONNECTED_C == Float(-12700)

Humidities == {NaN, Float(4500)}

Temperatures == {NaN, Float(2200)}

WaterTemps(s) ==
  IF DualSensor(s) THEN {DEVICE_DISCONNECTED_C, Float(1800)}
  ELSE {DEVICE_DISCONNECTED_C}

\* What the hardware can answer to one round of reads
Readings(s) ==
  [h : Humidities, t : Temperatures, w : WaterTemps(s)]

\* DHT::convertCtoF
convertCtoF(c) == Float((c.c * 18) \div 10 + 3200)

\* DHT::convertFtoC
convertFtoC(f) == Float(cdiv((f.c - 3200) * 5, 9))

\* dht.readTemperature(true): the same reading, converted
readTemperatureF(r) == IF isnan(r.t) THEN NaN ELSE convertCtoF(r.t)

\* DHT::computeHeatIndex, the branch for a heat index below 79 F (the
\* readings of the model stay below it); NaN in gives NaN out
computeHeatIndex(temperature, percentHumidity, isFahrenheit) ==
  IF isnan(temperature) \/ isnan(percentHumidity) THEN NaN
  ELSE LET tF == IF isFahrenheit THEN temperature
                 ELSE convertCtoF(temperature)
           hi == Float(cdiv(tF.c + 6100 + cdiv((tF.c - 6800) * 12, 10)
                            + cdiv(percentHumidity.c * 94, 1000), 2))
       IN  IF isFahrenheit THEN hi ELSE convertFtoC(hi)

-----------------------------------------------------------------------------
(* The log file.  Every write of the sketches ends with println, which     *)
(* sends "\r\n": a line of the file is kept with its "\r" and without the  *)
(* "\n" that ends it, which is what readStringUntil('\n') returns.         *)

CRLF == <<"\r">>

\* "Date,Time,Humidity (%),Air Temp (C),Air Temp (F),Heat Index (C),Heat Index (F),Water Temp (C)"
headerSMART ==
  <<"D", "a", "t", "e", ",", "T", "i", "m", "e", ",", "H", "u", "m", "i",
    "d", "i", "t", "y", " ", "(", "%", ")", ",", "A", "i", "r", " ", "T",
    "e", "m", "p", " ", "(", "C", ")", ",", "A", "i", "r", " ", "T", "e",
    "m", "p", " ", "(", "F", ")", ",", "H", "e", "a", "t", " ", "I", "n",
    "d", "e", "x", " ", "(", "C", ")", ",", "H", "e", "a", "t", " ", "I",
    "n", "d", "e", "x", " ", "(", "F", ")", ",", "W", "a", "t", "e", "r",
    " ", "T", "e", "m", "p", " ", "(", "C", ")">>

\* "Date,Time,Humidity (%),Air Temp (C),Air Temp (F),HI (C),HI (F),Water Temp (C)"
headerSevenDay ==
  <<"D", "a", "t", "e", ",", "T", "i", "m", "e", ",", "H", "u", "m", "i",
    "d", "i", "t", "y", " ", "(", "%", ")", ",", "A", "i", "r", " ", "T",
    "e", "m", "p", " ", "(", "C", ")", ",", "A", "i", "r", " ", "T", "e",
    "m", "p", " ", "(", "F", ")", ",", "H", "I", " ", "(", "C", ")", ",",
    "H", "I", " ", "(", "F", ")", ",", "W", "a", "t", "e", "r", " ", "T",
    "e", "m", "p", " ", "(", "C", ")">>

\* "Date,Time,Temperature,Humidity"
headerSingle ==
  <<"D", "a", "t", "e", ",", "T", "i", "m", "e", ",", "T", "e", "m", "p",
    "e", "r", "a", "t", "u", "r", "e", ",", "H", "u", "m", "i", "d", "i",
    "t", "y">>

headerText(s) ==
  CASE s = "SMART"    -> headerSMART
    [] s = "SevenDay" -> headerSevenDay
    [] OTHER          -> headerSingle

\* dataFile.println(<header>)
headerLine(s) == headerText(s) \o CRLF

\* A write that starts at the beginning of the file instead of its end
appendLineTruncating(file, line) == <<line>>

\* SD FILE_WRITE is O_READ | O_WRITE | O_CREAT | O_APPEND: a write appends
appendLine(file, line) == Append(file, line)

\* setup: does this startup write the header?  opened is whether SD.open
\* gave a file.
writesHeader(s, file, opened) ==
  IF DualSensor(s) THEN opened /\ Len(file) = 0   \* dataFile.size() == 0
  ELSE opened

\* DateTime::timestamp(TIMESTAMP_DATE): "%u-%02d-%02d"
timestampDate(t) ==
  printInt(t.y) \o <<"-">> \o print02(t.m) \o <<"-">> \o print02(t.d)

\* DateTime::timestamp(TIMESTAMP_TIME): "%02d:%02d:%02d"
timestampTime(t) ==
  print02(t.hh) \o <<":">> \o print02(t.mm) \o <<":">> \o print02(t.ss)

\* The date and time fields the download and basic sketches print
printDate(t) ==
  printInt(t.d) \o <<"/">> \o printInt(t.m) \o <<"/">> \o printInt(t.y)

printTime(t) ==
  printInt(t.hh) \o <<":">> \o printInt(t.mm) \o <<":">> \o printInt(t.ss)

\* A record with the humidity and temperature fields in each other's place
logRecordSwapped(s, t, r) ==
  IF DualSensor(s)
  THEN LET f   == readTemperatureF(r)
           hic == computeHeatIndex(r.t, r.h, FALSE)
           hif == computeHeatIndex(f, r.h, TRUE)
       IN  timestampDate(t) \o <<",">> \o timestampTime(t) \o <<",">>
             \o printFloat(r.t) \o <<",">> \o printFloat(r.h) \o <<",">>
             \o printFloat(f) \o <<",">> \o printFloat(hic) \o <<",">>
             \o printFloat(hif) \o <<",">> \o printFloat(r.w) \o CRLF
  ELSE printDate(t) \o <<",">> \o printTime(t) \o <<",">>
         \o printFloat(r.h) \o <<",">> \o printFloat(r.t) \o CRLF

\* The line one logging interval prints, from the clock value t and the
\* reading r
logRecord(s, t, r) ==
  IF DualSensor(s)
  THEN LET f   == readTemperatureF(r)
           hic == computeHeatIndex(r.t, r.h, FALSE)
           hif == computeHeatIndex(f, r.h, TRUE)
       IN  timestampDate(t) \o <<",">> \o timestampTime(t) \o <<",">>
             \o printFloat(r.h) \o <<",">> \o printFloat(r.t) \o <<",">>
             \o printFloat(f) \o <<",">> \o printFloat(hic) \o <<",">>
             \o printFloat(hif) \o <<",">> \o printFloat(r.w) \o CRLF
  ELSE printDate(t) \o <<",">> \o printTime(t) \o <<",">>
         \o printFloat(r.t) \o <<",">> \o printFloat(r.h) \o CRLF

\* A validity test that leaves the humidity out
readingRejectedWithoutHumidity(s, r) ==
  IF DualSensor(s)
  THEN \/ isnan(r.t)
       \/ isnan(readTemperatureF(r))
       \/ FloatEq(r.w, DEVICE_DISCONNECTED_C)
  ELSE FALSE

\* The validity test before a record is written.  The download and basic
\* sketches have none.
readingRejected(s, r) ==
  IF DualSensor(s)
  THEN \/ isnan(r.h)
       \/ isnan(r.t)
       \/ isnan(readTemperatureF(r))
       \/ FloatEq(r.w, DEVICE_DISCONNECTED_C)
  ELSE FALSE

-----------------------------------------------------------------------------
(* The dashboard.  What is sent to a client is a sequence of items: a      *)
(* text line, the live-readings section, a table row with its cells, or    *)
(* the bytes of a streamed file.                                           *)

Text(str) == [tag |-> "text", text |-> str, cells |-> <<>>, classes |-> <<>>]

Live(values, classes) ==
  [tag |-> "live", text |-> "", cells |-> values, classes |-> classes]

Row(cells) == [tag |-> "tr", text |-> "", cells |-> cells, classes |-> <<>>]

Raw(bytes) ==
  [tag |-> "raw", text |-> "", cells |-> <<bytes>>, classes |-> <<>>]

\* The bands with their upper bounds left out
colorIndicatorExclusive(value, greenMin, greenMax, yellowMin, yellowMax) ==
  IF FloatGeq(value, greenMin) /\ ~FloatGeq(value, greenMax) THEN "green"
  ELSE IF FloatGeq(value, yellowMin) /\ ~FloatGeq(value, yellowMax)
       THEN "orange"
  ELSE "red"

\* String colorIndicator(float value, float greenMin, float greenMax,
\*                       float yellowMin, float yellowMax)
colorIndicator(value, greenMin, greenMax, yellowMin, yellowMax) ==
  IF FloatGeq(value, greenMin) /\ FloatLeq(value, greenMax) THEN "green"
  ELSE IF FloatGeq(value, yellowMin) /\ FloatLeq(value, yellowMax)
       THEN "orange"
  ELSE "red"

\* The live-readings section of the page, from the reading r
liveSection(s, r) ==
  LET f == readTemperatureF(r)
  IN  CASE s = "SMART" ->
             Live(<<printFloat(r.h), printFloat(r.t), printFloat(f),
                    printFloat(computeHeatIndex(r.t, r.h, FALSE)),
                    printFloat(computeHeatIndex(f, r.h, TRUE)),
                    printFloat(r.w)>>, <<>>)
        [] s = "SevenDay" ->
             Live(<<printFloat(r.h), printFloat(r.t), printFloat(f),
                    printFloat(computeHeatIndex(r.t, r.h, FALSE)),
                    printFloat(computeHeatIndex(f, r.h, TRUE)),
                    printFloat(r.w)>>,
                  <<colorIndicator(r.h, Float(3000), Float(6000),
                                   Float(2000), Float(7000)),
                    colorIndicator(r.t, Float(2000), Float(2500),
                                   Float(1500), Float(3000)),
                    colorIndicator(r.w, Float(1500), Float(2500),
                                   Float(1000), Float(3000))>>)
        [] OTHER ->
             Live(<<printFloat(r.t), printFloat(f), printFloat(r.h)>>, <<>>)

\* The cells of a row of the dual-sensor sketches: the line split at
\* every comma
RECURSIVE splitCells(_, _)
splitCells(line, startIdx) ==
  LET endIdx == indexOf(line, ",", startIdx)
  IN  IF endIdx # -1
      THEN <<substring(line, startIdx, endIdx)>>
             \o splitCells(line, endIdx + 1)
      ELSE <<substringFrom(line, startIdx)>>

\* The cells of a row, per sketch
rowCells(s, line) ==
  CASE DualSensor(s) -> splitCells(line, 0)
    [] s = "Download" ->
         LET first  == indexOf(line, ",", 0)
             second == indexOf(line, ",", first + 1)
             third  == indexOf(line, ",", second + 1)
         IN  <<substring(line, 0, first),
               substring(line, first + 1, second),
               substring(line, second + 1, third),
               substringFrom(line, third + 1)>>
    [] s = "Basic" ->
         <<substring(line, 0, indexOf(line, ",", 0)),
           substringFrom(line, indexOf(line, ",", 0) + 1)>>

\* The test that skips a line as a header (SMART.ino has none)
skipsLine(s, line) ==
  CASE s = "SMART"    -> FALSE
    [] s = "SevenDay" -> startsWith(line, <<"D", "a", "t", "e">>)
    [] OTHER          -> startsWith(line, headerSingle)

\* The date the 7-day sketch slices out of a line
entryDate(line) ==
  LET commaIndex == indexOf(line, ",", 0)
      dateStr    == substring(line, 0, commaIndex)
      year       == toInt(substring(dateStr, 0, 4))
      month      == toInt(substring(dateStr, 5, 7))
      day        == toInt(substring(dateStr, 8, 10))
  IN  DateTime(year, month, day, 0, 0, 0)

\* The window test with < in place of <=
inWindowStrict(s, line, now) ==
  IF s = "SevenDay" THEN diffDays(now, entryDate(line)) < 7 ELSE TRUE

\* The 7-day sketch's window test; the other sketches show every line
inWindow(s, line, now) ==
  IF s = "SevenDay" THEN diffDays(now, entryDate(line)) <= 7 ELSE TRUE

\* The rows sent when the skip test is applied to the first line only
RECURSIVE tableRowsSkippingFirstOnly(_, _, _, _)
tableRowsSkippingFirstOnly(s, file, now, i) ==
  IF i > Len(file) THEN <<>>
  ELSE IF i = 1 /\ skipsLine(s, file[i])
       THEN tableRowsSkippingFirstOnly(s, file, now, i + 1)
  ELSE IF inWindow(s, file[i], now)
       THEN <<Row(rowCells(s, file[i]))>>
              \o tableRowsSkippingFirstOnly(s, file, now, i + 1)
  ELSE tableRowsSkippingFirstOnly(s, file, now, i + 1)

\* The rows sent for the lines of the file from line i on
RECURSIVE tableRows(_, _, _, _)
tableRows(s, file, now, i) ==
  IF i > Len(file) THEN <<>>
  ELSE IF skipsLine(s, file[i]) THEN tableRows(s, file, now, i + 1)
  ELSE IF inWindow(s, file[i], now)
       THEN <<Row(rowCells(s, file[i]))>> \o tableRows(s, file, now, i + 1)
  ELSE tableRows(s, file, now, i + 1)

\* What is sent in place of the rows when the file cannot be opened
openError(s) ==
  CASE s = "SMART" -> <<Text("<p>Error opening datalog.csv</p>")>>
    [] s = "SevenDay" ->
         <<Text("<tr><td colspan='8'>Error opening datalog.csv</td></tr>")>>
    [] OTHER -> <<>>

tableBody(s, file, now, opened) ==
  IF opened THEN tableRows(s, file, now, 1) ELSE openError(s)

\* The lines sent before the page: status line, headers, blank line
pageHead(s) ==
  CASE DualSensor(s) ->
         <<Text("HTTP/1.1 200 OK"), Text("Content-Type: text/html"), Text("")>>
    [] s = "Basic" ->
         <<Text("HTTP/1.1 200 OK"), Text("Content-type:text/html"), Text("")>>
    [] s = "Download" -> <<>>

pageOpen(s) ==
  CASE s = "SMART" ->
         <<Text("<html><head><title>Sensor Dashboard</title></head><body>")>>
    [] s = "SevenDay" ->
         <<Text("<!DOCTYPE html><html><head>"), Text("</style></head><body>")>>
    [] s = "Download" -> <<Text("<html>"), Text("<body>")>>
    [] s = "Basic" -> <<>>

tableOpen(s) ==
  IF DualSensor(s)
  THEN <<Text("<table><tr><th>Date</th><th>Time</th><th>Humidity</th><th>Air Temp (C)</th><th>Air Temp (F)</th><th>HI (C)</th><th>HI (F)</th><th>Water Temp (C)</th></tr>")>>
  ELSE <<Text("<table>"),
         Text("<tr><th>Date</th><th>Time</th><th>Temperature</th><th>Humidity</th></tr>")>>

\* A page whose closing lines are not sent
pageCloseMissing(s) == <<>>

pageClose(s) ==
  CASE s = "SMART"    -> <<Text("</table></body></html>")>>
    [] s = "SevenDay" -> <<Text("</table>"), Text("</body></html>")>>
    [] s = "Download" -> <<Text("</table>"), Text("</body></html>")>>
    [] s = "Basic"    -> <<Text("</table>"), Text("")>>

\* A page that leaves the log table out when the humidity read fails
dashboardWithoutTableOnBadRead(s, file, now, r, opened) ==
  IF isnan(r.h)
  THEN pageHead(s) \o pageOpen(s) \o <<liveSection(s, r)>> \o pageClose(s)
  ELSE pageHead(s) \o pageOpen(s) \o <<liveSection(s, r)>> \o tableOpen(s)
         \o tableBody(s, file, now, opened) \o pageClose(s)

\* The default page: r is the reading taken for it, now the clock, opened
\* whether SD.open gave the file
dashboard(s, file, now, r, opened) ==
  pageHead(s) \o pageOpen(s) \o <<liveSection(s, r)>> \o tableOpen(s)
    \o tableBody(s, file, now, opened) \o pageClose(s)

\* The bytes of the file, as dataFile.read() gives them
RECURSIVE fileBytes(_, _)
fileBytes(file, i) ==
  IF i > Len(file) THEN <<>>
  ELSE file[i] \o <<"\n">> \o fileBytes(file, i + 1)

\* An answer that does not look at whether the file opened
downloadIgnoringOpenFailure(file, opened) ==
  <<Text("HTTP/1.1 200 OK"), Text("Content-Type: text/plain"),
    Text("Content-Disposition: attachment; filename=SMART_Node_Data.txt"),
    Text("Connection: close"), Text(""),
    Raw(IF opened THEN fileBytes(file, 1) ELSE <<>>)>>

\* The download sketch's answer to a download request
download(file, opened) ==
  IF opened
  THEN <<Text("HTTP/1.1 200 OK"), Text("Content-Type: text/plain"),
         Text("Content-Disposition: attachment; filename=SMART_Node_Data.txt"),
         Text("Connection: close"), Text(""), Raw(fileBytes(file, 1))>>
  ELSE <<Text("HTTP/1.1 500 Internal Server Error"),
         Text("Content-Type: text/plain"), Text("Connection: close"),
         Text(""), Text("Error opening data.txt for download.")>>

downloadToken ==
  <<"G", "E", "T", " ", "/", "d", "o", "w", "n", "l", "o", "a", "d">>

\* request.indexOf("GET /download") >= 0, in the download sketch only
isDownload(s, requestSoFar) ==
  s = "Download" /\ contains(requestSoFar, downloadToken)

\* The whole answer of the sketch to a request whose headers have ended
response(s, requestSoFar, file, now, r, opened) ==
  IF isDownload(s, requestSoFar) THEN download(file, opened)
  ELSE dashboard(s, file, now, r, opened)

-----------------------------------------------------------------------------
(* The requests clients send: the text a client sends on its connection.   *)
(* A text without an empty line is a client that then goes silent.         *)

\* "GET /\n\n"
reqRoot == <<"G", "E", "T", " ", "/", "\n", "\n">>

\* "GET /download\r\n\r\n"
reqDownload ==
  <<"G", "E", "T", " ", "/", "d", "o", "w", "n", "l", "o", "a", "d", "\r",
    "\n", "\r", "\n">>

\* "GET /\nA:GET /download\n\n": the token in a later header line only
reqLaterToken ==
  <<"G", "E", "T", " ", "/", "\n", "A", ":", "G", "E", "T", " ", "/", "d",
    "o", "w", "n", "l", "o", "a", "d", "\n", "\n">>

\* "GET /x\r\n": another path, and no empty line
reqSilent == <<"G", "E", "T", " ", "/", "x", "\r", "\n">>

Requests == {reqRoot, reqDownload, reqLaterToken, reqSilent}

-----------------------------------------------------------------------------
(* The state machine.                                                      *)

NoTime == DateTime(0, 0, 0, 0, 0, 0)

NoReading == [h |-> NaN, t |-> NaN, w |-> NaN]

NoLog ==
  [attempted |-> FALSE, r |-> NoReading, opened |-> FALSE, t |-> NoTime,
   before |-> <<>>]

NoSetup == [done |-> FALSE, failed |-> {}]

NoServe ==
  [done |-> FALSE, opened |-> FALSE, r |-> NoReading, before |-> <<>>]

\* No page is remembered; on says whether pages are remembered at all
NoPage(on) ==
  [on |-> on, set |-> FALSE, file |-> <<>>, now |-> NoTime, opened |-> FALSE,
   r |-> NoReading, sent |-> <<>>]

\* Nothing attempted since the counter was at `since` units before now
NoAttempt(since) == [since |-> since, outcome |-> "none", count |-> 0]

NoBand ==
  [value |-> NaN, greenMin |-> NaN, greenMax |-> NaN, yellowMin |-> NaN,
   yellowMax |-> NaN]

NoConnection ==
  /\ conn' = "None"
  /\ connected' = FALSE
  /\ req' = <<>>
  /\ rx' = 0
  /\ currentLine' = <<>>
  /\ request' = <<>>
  /\ resp' = <<>>

Init ==
  /\ sketch \in Sketches
  /\ pc = "setup"
  /\ logFile = <<>>
  /\ rtc = Clock(sketch)[1]
  /\ millis = 0
  /\ previousMillis = 0
  /\ currentTime = NoTime
  /\ boots = 0
  /\ conn = "None"
  /\ connected = FALSE
  /\ req = <<>>
  /\ rx = 0
  /\ currentLine = <<>>
  /\ request = <<>>
  /\ resp = <<>>
  /\ lastLog = NoLog
  /\ band = NoBand
  /\ color = ""
  /\ lastSetup = NoSetup
  /\ lastServe = NoServe
  /\ prevPage = NoPage(FALSE)
  /\ attempt = NoAttempt(0)

\* Does setup reach its end, or halt in a while(1)?  The dual-sensor
\* sketches go on when the log file does not open; the others halt.
setupCompletes(s, rtcOk, sdOk, opened, wifiOk, apOk) ==
  IF DualSensor(s) THEN rtcOk /\ sdOk /\ wifiOk
  ELSE wifiOk /\ apOk /\ sdOk /\ opened

\* Does setup get as far as opening the log file?
setupOpensLog(s, rtcOk, sdOk, wifiOk, apOk) ==
  IF DualSensor(s) THEN rtcOk /\ sdOk
  ELSE wifiOk /\ apOk /\ sdOk

\* What fails among the things setup gets to, in the order of the code; a
\* halt ends setup.  The dual-sensor sketches have a clock module on the
\* bus; the others use the clock of the microcontroller and test nothing.
setupFailures(s, rtcOk, sdOk, openOk, wifiOk, apOk) ==
  IF DualSensor(s)
  THEN IF ~rtcOk THEN {"clock"}
       ELSE IF ~sdOk THEN {"storage"}
       ELSE (IF openOk THEN {} ELSE {"logfile"})
              \cup (IF wifiOk THEN {} ELSE {"wireless"})
  ELSE IF ~wifiOk THEN {"wireless"}
       ELSE IF ~apOk THEN {"accesspoint"}
       ELSE IF ~sdOk THEN {"storage"}
       ELSE IF ~openOk THEN {"logfile"}
       ELSE {}

\* void setup()
setup ==
  /\ pc = "setup"
  /\ \E rtcOk \in BOOLEAN, sdOk \in BOOLEAN, openOk \in BOOLEAN,
        wifiOk \in BOOLEAN, apOk \in BOOLEAN :
       LET opened == setupOpensLog(sketch, rtcOk, sdOk, wifiOk, apOk) /\ openOk
       IN  /\ logFile' = IF writesHeader(sketch, logFile, opened)
                         THEN appendLine(logFile, headerLine(sketch))
                         ELSE logFile
           /\ pc' = IF setupCompletes(sketch, rtcOk, sdOk, opened, wifiOk, apOk)
                    THEN "loop" ELSE "halted"
           /\ lastSetup' = [done |-> TRUE,
                            failed |-> setupFailures(sketch, rtcOk, sdOk,
                                                     openOk, wifiOk, apOk)]
  /\ rtc' = IF DualSensor(sketch) THEN rtc ELSE startTime(sketch)
  /\ millis' = setupDelay \div Unit
  /\ attempt' = NoAttempt(setupDelay \div Unit)
  /\ UNCHANGED <<band, color, lastServe, prevPage>>
  /\ UNCHANGED <<sketch, previousMillis, currentTime, boots, conn, connected,
                 req, rx, currentLine, request, resp, lastLog>>

\* Power is cycled or the board is reset: RAM is lost, the card is kept
Restart ==
  /\ pc # "setup"
  /\ boots < MaxBoots
  /\ DualSensor(sketch) \/ Len(logFile) < MaxLines
  /\ pc' = "setup"
  /\ boots' = boots + 1
  /\ millis' = 0
  /\ previousMillis' = 0
  /\ currentTime' = NoTime
  /\ lastLog' = NoLog
  /\ NoConnection
  /\ lastSetup' = NoSetup
  /\ lastServe' = NoServe
  /\ prevPage' = NoPage(prevPage.on)
  /\ attempt' = NoAttempt(0)
  /\ UNCHANGED <<band, color>>
  /\ UNCHANGED <<sketch, logFile, rtc>>

\* Time passes, to the next instant of Clock, while the sketch is at the
\* top of loop() or waits for a character from a client
Tick ==
  /\ \/ pc = "loop"
     \/ pc = "client" /\ rx = Len(req)
  /\ ClockIndex(sketch, rtc) < Len(Clock(sketch))
  /\ LET next == Clock(sketch)[ClockIndex(sketch, rtc) + 1]
     IN  /\ rtc' = next
         /\ millis' = (millis + unitsBetween(rtc, next)) % Wrap
         /\ attempt' = [attempt EXCEPT
                          !.since = attempt.since + unitsBetween(rtc, next)]
  /\ lastLog' = NoLog
  /\ lastSetup' = NoSetup
  /\ UNCHANGED <<band, color, lastServe, prevPage>>
  /\ UNCHANGED <<sketch, pc, logFile, previousMillis, currentTime, boots,
                 conn, connected, req, rx, currentLine, request, resp>>

\* RTC.getTime(currentTime) at the top of loop(), download and basic sketch
readClock(s, now) == IF DualSensor(s) THEN NoTime ELSE now

\* loop(): server.available() gives a client
AcceptClient ==
  /\ pc = "loop"
  /\ \E text \in Requests : req' = text
  /\ pc' = "client"
  /\ currentTime' = readClock(sketch, rtc)
  /\ conn' = "AwaitingHeaderEnd"
  /\ connected' = TRUE
  /\ rx' = 0
  /\ currentLine' = <<>>
  /\ request' = <<>>
  /\ resp' = <<>>
  /\ lastLog' = NoLog
  /\ lastSetup' = NoSetup
  /\ lastServe' = NoServe
  /\ UNCHANGED <<band, color, prevPage, attempt>>
  /\ UNCHANGED <<sketch, logFile, rtc, millis, previousMillis, boots>>

\* A loop() that goes on to the logging part while a client is being read
NoClientWhileServing ==
  /\ pc \in {"loop", "client"}
  /\ pc' = "log"
  /\ currentTime' = readClock(sketch, rtc)
  /\ lastLog' = NoLog
  /\ lastSetup' = NoSetup
  /\ UNCHANGED <<band, color, lastServe, prevPage, attempt>>
  /\ UNCHANGED <<sketch, logFile, rtc, millis, previousMillis, boots, conn,
                 connected, req, rx, currentLine, request, resp>>

\* loop(): server.available() gives no client
NoClient ==
  /\ pc = "loop"
  /\ pc' = "log"
  /\ currentTime' = readClock(sketch, rtc)
  /\ lastLog' = NoLog
  /\ lastSetup' = NoSetup
  /\ UNCHANGED <<band, color, lastServe, prevPage, attempt>>
  /\ UNCHANGED <<sketch, logFile, rtc, millis, previousMillis, boots, conn,
                 connected, req, rx, currentLine, request, resp>>

\* The test without the look at currentLine: any '\n' ends the headers
endOfHeadersAnyNewline(c, line) == c = "\n"

\* The test for the end of the request headers: a '\n' with currentLine
\* empty
endOfHeaders(c, line) == c = "\n" /\ Len(line) = 0

\* currentLine after the character c
nextLine(c, line) ==
  IF c = "\n" THEN <<>>
  ELSE IF c # "\r" THEN line \o <<c>>
  ELSE line

\* One round of while (client.connected()) with a character available
ReadChar ==
  /\ pc = "client"
  /\ connected
  /\ rx < Len(req)
  /\ LET c   == req[rx + 1]
         acc == IF sketch = "Download" THEN request \o <<c>> ELSE request
     IN  /\ rx' = rx + 1
         /\ request' = acc
         /\ IF endOfHeaders(c, currentLine)
            THEN /\ \E r \in Readings(sketch), opened \in BOOLEAN :
                      /\ resp' = resp \o response(sketch, acc, logFile, rtc,
                                                  r, opened)
                      /\ lastServe' = [done |-> TRUE, opened |-> opened,
                                       r |-> r, before |-> logFile]
                 /\ conn' = "Responding"
                 /\ pc' = "stop"
                 /\ UNCHANGED currentLine
            ELSE /\ currentLine' = nextLine(c, currentLine)
                 /\ UNCHANGED <<resp, conn, pc, lastServe>>
  /\ lastLog' = NoLog
  /\ lastSetup' = NoSetup
  /\ UNCHANGED <<band, color, prevPage, attempt>>
  /\ UNCHANGED <<sketch, logFile, rtc, millis, previousMillis, currentTime,
                 boots, connected, req>>

\* The client closes the connection while the sketch reads its request
ClientDisconnect ==
  /\ pc = "client"
  /\ connected
  /\ connected' = FALSE
  /\ lastLog' = NoLog
  /\ lastSetup' = NoSetup
  /\ UNCHANGED <<band, color, lastServe, prevPage, attempt>>
  /\ UNCHANGED <<sketch, pc, logFile, rtc, millis, previousMillis,
                 currentTime, boots, conn, req, rx, currentLine, request,
                 resp>>

\* What was sent, without the live-readings section
withoutLive(sent) == SelectSeq(sent, LAMBDA item : item.tag # "live")

\* A client.stop() that also ends the wait for a client that sends nothing
ClientStopOnTimeout ==
  /\ pc \in {"stop", "client"}
  /\ conn' = "Closed"
  /\ connected' = FALSE
  /\ pc' = "log"
  /\ lastLog' = NoLog
  /\ lastSetup' = NoSetup
  /\ lastServe' = NoServe
  /\ UNCHANGED <<band, color, attempt, prevPage>>
  /\ UNCHANGED <<sketch, logFile, rtc, millis, previousMillis, currentTime,
                 boots, req, rx, currentLine, request, resp>>

\* A client.stop() after which the interval starts anew
ClientStopResettingTimer ==
  /\ \/ pc = "stop"
     \/ pc = "client" /\ ~connected
  /\ conn' = "Closed"
  /\ connected' = FALSE
  /\ pc' = "log"
  /\ previousMillis' = millis
  /\ lastLog' = NoLog
  /\ lastSetup' = NoSetup
  /\ lastServe' = NoServe
  /\ prevPage' = IF prevPage.on /\ lastServe.done
                       /\ ~isDownload(sketch, request)
                  THEN [on |-> TRUE, set |-> TRUE, file |-> logFile,
                        now |-> rtc, opened |-> lastServe.opened,
                        r |-> lastServe.r, sent |-> withoutLive(resp)]
                  ELSE prevPage
  /\ UNCHANGED <<band, color, attempt>>
  /\ UNCHANGED <<sketch, logFile, rtc, millis, currentTime, boots, req, rx,
                 currentLine, request, resp>>

\* A client.stop() that ends the round of loop(), the interval check left
\* to a round without a client
ClientStopEndingRound ==
  /\ \/ pc = "stop"
     \/ pc = "client" /\ ~connected
  /\ conn' = "Closed"
  /\ connected' = FALSE
  /\ pc' = "loop"
  /\ lastLog' = NoLog
  /\ lastSetup' = NoSetup
  /\ lastServe' = NoServe
  /\ prevPage' = IF prevPage.on /\ lastServe.done
                       /\ ~isDownload(sketch, request)
                  THEN [on |-> TRUE, set |-> TRUE, file |-> logFile,
                        now |-> rtc, opened |-> lastServe.opened,
                        r |-> lastServe.r, sent |-> withoutLive(resp)]
                  ELSE prevPage
  /\ UNCHANGED <<band, color, attempt>>
  /\ UNCHANGED <<sketch, logFile, rtc, millis, previousMillis, currentTime,
                 boots, req, rx, currentLine, request, resp>>

\* client.stop(), after the break or once client.connected() is false
ClientStop ==
  /\ \/ pc = "stop"
     \/ pc = "client" /\ ~connected
  /\ conn' = "Closed"
  /\ connected' = FALSE
  /\ pc' = "log"
  /\ lastLog' = NoLog
  /\ lastSetup' = NoSetup
  /\ lastServe' = NoServe
  /\ prevPage' = IF prevPage.on /\ lastServe.done
                       /\ ~isDownload(sketch, request)
                  THEN [on |-> TRUE, set |-> TRUE, file |-> logFile,
                        now |-> rtc, opened |-> lastServe.opened,
                        r |-> lastServe.r, sent |-> withoutLive(resp)]
                  ELSE prevPage
  /\ UNCHANGED <<band, color, attempt>>
  /\ UNCHANGED <<sketch, logFile, rtc, millis, previousMillis, currentTime,
                 boots, req, rx, currentLine, request, resp>>

\* if (currentMillis - previousMillis >= interval)
intervalElapsed(s, currentMillis, prevMillis) ==
  elapsedMillis(currentMillis, prevMillis) >= interval(s)

\* The clock value a record is stamped with: rtc.now() in the dual-sensor
\* sketches, currentTime from the top of loop() in the others
stampTime(s, now, atTop) == IF DualSensor(s) THEN now ELSE atTop

\* The file after a logging attempt with reading r
logged(s, file, t, r, opened) ==
  IF readingRejected(s, r) THEN file
  ELSE IF opened THEN appendLine(file, logRecord(s, t, r))
  ELSE file

\* How a logging attempt with reading r ends
outcome(s, r, opened) ==
  IF readingRejected(s, r) THEN "rejected"
  ELSE IF opened THEN "written"
  ELSE "unopened"

\* A logging part that leaves previousMillis as it is when it rejects the
\* reading, and so tries again in the next round of loop()
LogIntervalRetrying ==
  /\ pc = "log"
  /\ IF intervalElapsed(sketch, millis, previousMillis)
     THEN /\ Len(logFile) < MaxLines
          /\ \E r \in Readings(sketch), opened \in BOOLEAN :
               LET t == stampTime(sketch, rtc, currentTime)
               IN  /\ previousMillis' = IF readingRejected(sketch, r)
                                        THEN previousMillis ELSE millis
                   /\ logFile' = logged(sketch, logFile, t, r, opened)
                   /\ lastLog' = [attempted |-> TRUE, r |-> r,
                                  opened |-> opened, t |-> t,
                                  before |-> logFile]
                   /\ attempt' = [since |-> 0,
                                  outcome |-> outcome(sketch, r, opened),
                                  count |-> IF attempt.count < MaxCount
                                            THEN attempt.count + 1
                                            ELSE MaxCount]
     ELSE /\ lastLog' = NoLog
          /\ UNCHANGED <<logFile, previousMillis, attempt>>
  /\ pc' = "loop"
  /\ NoConnection
  /\ lastSetup' = NoSetup
  /\ lastServe' = NoServe
  /\ prevPage' = IF logFile' = logFile THEN prevPage
                  ELSE NoPage(prevPage.on)
  /\ UNCHANGED <<band, color>>
  /\ UNCHANGED <<sketch, rtc, millis, currentTime, boots>>

\* A logging part that leaves previousMillis as it is when the file does
\* not open, and so tries again in the next round of loop()
LogIntervalRetryingUnopened ==
  /\ pc = "log"
  /\ IF intervalElapsed(sketch, millis, previousMillis)
     THEN /\ Len(logFile) < MaxLines
          /\ \E r \in Readings(sketch), opened \in BOOLEAN :
               LET t == stampTime(sketch, rtc, currentTime)
               IN  /\ previousMillis' =
                        IF outcome(sketch, r, opened) = "unopened"
                        THEN previousMillis ELSE millis
                   /\ logFile' = logged(sketch, logFile, t, r, opened)
                   /\ lastLog' = [attempted |-> TRUE, r |-> r,
                                  opened |-> opened, t |-> t,
                                  before |-> logFile]
                   /\ attempt' = [since |-> 0,
                                  outcome |-> outcome(sketch, r, opened),
                                  count |-> IF attempt.count < MaxCount
                                            THEN attempt.count + 1
                                            ELSE MaxCount]
     ELSE /\ lastLog' = NoLog
          /\ UNCHANGED <<logFile, previousMillis, attempt>>
  /\ pc' = "loop"
  /\ NoConnection
  /\ lastSetup' = NoSetup
  /\ lastServe' = NoServe
  /\ prevPage' = IF logFile' = logFile THEN prevPage
                  ELSE NoPage(prevPage.on)
  /\ UNCHANGED <<band, color>>
  /\ UNCHANGED <<sketch, rtc, millis, currentTime, boots>>

\* A data logging part whose timer advances by one interval at a time, so
\* that the intervals missed are made up one round of loop() after another
LogIntervalCatchingUp ==
  /\ pc = "log"
  /\ IF intervalElapsed(sketch, millis, previousMillis)
     THEN /\ Len(logFile) < MaxLines
          /\ previousMillis' = (previousMillis + interval(sketch)) % Wrap
          /\ \E r \in Readings(sketch), opened \in BOOLEAN :
               LET t == stampTime(sketch, rtc, currentTime)
               IN  /\ logFile' = logged(sketch, logFile, t, r, opened)
                   /\ lastLog' = [attempted |-> TRUE, r |-> r,
                                  opened |-> opened, t |-> t,
                                  before |-> logFile]
                   /\ attempt' = [since |-> 0,
                                  outcome |-> outcome(sketch, r, opened),
                                  count |-> IF attempt.count < MaxCount
                                            THEN attempt.count + 1
                                            ELSE MaxCount]
     ELSE /\ lastLog' = NoLog
          /\ UNCHANGED <<logFile, previousMillis, attempt>>
  /\ pc' = "loop"
  /\ NoConnection
  /\ lastSetup' = NoSetup
  /\ lastServe' = NoServe
  /\ prevPage' = IF logFile' = logFile THEN prevPage
                  ELSE NoPage(prevPage.on)
  /\ UNCHANGED <<band, color>>
  /\ UNCHANGED <<sketch, rtc, millis, currentTime, boots>>

\* loop(): the data logging part, which ends the iteration
LogInterval ==
  /\ pc = "log"
  /\ IF intervalElapsed(sketch, millis, previousMillis)
     THEN /\ Len(logFile) < MaxLines
          /\ previousMillis' = millis
          /\ \E r \in Readings(sketch), opened \in BOOLEAN :
               LET t == stampTime(sketch, rtc, currentTime)
               IN  /\ logFile' = logged(sketch, logFile, t, r, opened)
                   /\ lastLog' = [attempted |-> TRUE, r |-> r,
                                  opened |-> opened, t |-> t,
                                  before |-> logFile]
                   /\ attempt' = [since |-> 0,
                                  outcome |-> outcome(sketch, r, opened),
                                  count |-> IF attempt.count < MaxCount
                                            THEN attempt.count + 1
                                            ELSE MaxCount]
     ELSE /\ lastLog' = NoLog
          /\ UNCHANGED <<logFile, previousMillis, attempt>>
  /\ pc' = "loop"
  /\ NoConnection
  /\ lastSetup' = NoSetup
  /\ lastServe' = NoServe
  /\ prevPage' = IF logFile' = logFile THEN prevPage
                  ELSE NoPage(prevPage.on)
  /\ UNCHANGED <<band, color>>
  /\ UNCHANGED <<sketch, rtc, millis, currentTime, boots>>

Next ==
  \/ setup
  \/ Restart
  \/ Tick
  \/ AcceptClient
  \/ NoClient
  \/ ReadChar
  \/ ClientDisconnect
  \/ ClientStop
  \/ LogInterval

Spec == Init /\ [][Next]_vars

-----------------------------------------------------------------------------
(* colorIndicator on its own: every value and every pair of bands over a   *)
(* small range, overlapping, nested, disjoint and empty bands included.    *)

ColorMax == 3

BandLimits == {Float(i) : i \in 0..ColorMax}

ColorStart ==
  /\ sketch = "SevenDay"
  /\ pc = "setup"
  /\ logFile = <<>>
  /\ rtc = Clock(sketch)[1]
  /\ millis = 0
  /\ previousMillis = 0
  /\ currentTime = NoTime
  /\ boots = 0
  /\ conn = "None"
  /\ connected = FALSE
  /\ req = <<>>
  /\ rx = 0
  /\ currentLine = <<>>
  /\ request = <<>>
  /\ resp = <<>>
  /\ lastLog = NoLog
  /\ band \in [value : BandLimits \cup {NaN}, greenMin : BandLimits,
               greenMax : BandLimits, yellowMin : BandLimits,
               yellowMax : BandLimits]
  /\ color = ""
  /\ lastSetup = NoSetup
  /\ lastServe = NoServe
  /\ prevPage = NoPage(FALSE)
  /\ attempt = NoAttempt(0)

\* One call of colorIndicator
Classify ==
  /\ color = ""
  /\ color' = colorIndicator(band.value, band.greenMin, band.greenMax,
                             band.yellowMin, band.yellowMax)
  /\ UNCHANGED <<sketch, pc, logFile, rtc, millis, previousMillis,
                 currentTime, boots, conn, connected, req, rx, currentLine,
                 request, resp, lastLog, band, lastSetup, lastServe,
                 prevPage, attempt>>

SpecColor == ColorStart /\ [][Classify]_vars

-----------------------------------------------------------------------------
(* The 7-day sketch serving its page over logs whose rows have any two     *)
(* dates of a run of consecutive days, at any later date and time of day.  *)
(* The runs are listed day by day, across the end of February of a leap    *)
(* year and across the end of May.                                         *)

leapDays ==
  <<<<2024, 2, 23>>, <<2024, 2, 24>>, <<2024, 2, 25>>, <<2024, 2, 26>>,
    <<2024, 2, 27>>, <<2024, 2, 28>>, <<2024, 2, 29>>, <<2024, 3, 1>>,
    <<2024, 3, 2>>, <<2024, 3, 3>>, <<2024, 3, 4>>>>

juneDays ==
  <<<<2025, 5, 29>>, <<2025, 5, 30>>, <<2025, 5, 31>>, <<2025, 6, 1>>,
    <<2025, 6, 2>>, <<2025, 6, 3>>, <<2025, 6, 4>>, <<2025, 6, 5>>,
    <<2025, 6, 6>>, <<2025, 6, 7>>, <<2025, 6, 8>>, <<2025, 6, 9>>,
    <<2025, 6, 10>>>>

DayRuns == {leapDays, juneDays}

TimesOfDay == {<<0, 0, 0>>, <<13, 0, 0>>, <<23, 59, 59>>}

AtDay(day, hh, mm, ss) == DateTime(day[1], day[2], day[3], hh, mm, ss)

\* A reading with every value valid
goodReading == [h |-> Float(4500), t |-> Float(2200), w |-> Float(1800)]

FilterStart ==
  /\ sketch = "SevenDay"
  /\ pc = "client"
  /\ \E run \in DayRuns : \E i \in 1..Len(run), j \in 1..Len(run),
        k \in 1..Len(run), tod \in TimesOfDay :
       /\ i <= j
       /\ j <= k
       /\ j = k => tod # <<0, 0, 0>>
       /\ logFile = <<headerLine("SevenDay"),
                      logRecord("SevenDay", AtDay(run[i], 12, 0, 0),
                                goodReading),
                      logRecord("SevenDay", AtDay(run[j], 13, 0, 0),
                                goodReading)>>
       /\ rtc = AtDay(run[k], tod[1], tod[2], tod[3])
  /\ millis = setupDelay \div Unit
  /\ previousMillis = 0
  /\ currentTime = NoTime
  /\ boots = 0
  /\ conn = "AwaitingHeaderEnd"
  /\ connected = TRUE
  /\ req = reqRoot
  /\ rx = Len(reqRoot) - 1
  /\ currentLine = <<>>
  /\ request = <<>>
  /\ resp = <<>>
  /\ lastLog = NoLog
  /\ band = NoBand
  /\ color = ""
  /\ lastSetup = NoSetup
  /\ lastServe = NoServe
  /\ prevPage = NoPage(FALSE)
  /\ attempt = NoAttempt(setupDelay \div Unit)

FilterNext ==
  \/ ReadChar
  \/ ClientStop

SpecFilter == FilterStart /\ [][FilterNext]_vars

-----------------------------------------------------------------------------
(* The dual-sensor sketches after weeks of running, at the top of loop()   *)
(* with the millisecond counter about to wrap or just wrapped: the last    *)
(* logging attempt was made when the counter was a little below 2^32 (or   *)
(* at 0), and a little time, an interval, or almost 2^32 ms have passed    *)
(* since.                                                                  *)

\* How far below the wrap previousMillis was left, in units
TimerBefore(s) == {0, 1, 2, interval(s) - 1, interval(s), interval(s) + 1}

\* How much real time has passed since, in units
TimerElapsed(s) ==
  {0, 1, interval(s) - 1, interval(s), interval(s) + 1, Wrap - 1}

TimerStart ==
  /\ sketch \in {"SMART", "SevenDay"}
  /\ pc = "loop"
  /\ logFile = <<headerLine(sketch)>>
  /\ rtc = Clock(sketch)[1]
  /\ \E k \in TimerBefore(sketch), e \in TimerElapsed(sketch) :
       /\ previousMillis = (Wrap - k) % Wrap
       /\ millis = (Wrap - k + e) % Wrap
       /\ attempt = [since |-> e, outcome |-> "unopened", count |-> 1]
  /\ currentTime = NoTime
  /\ boots = 0
  /\ conn = "None"
  /\ connected = FALSE
  /\ req = <<>>
  /\ rx = 0
  /\ currentLine = <<>>
  /\ request = <<>>
  /\ resp = <<>>
  /\ lastLog = NoLog
  /\ band = NoBand
  /\ color = ""
  /\ lastSetup = NoSetup
  /\ lastServe = NoServe
  /\ prevPage = NoPage(FALSE)

TimerNext ==
  \/ Tick
  \/ NoClient
  \/ LogInterval

SpecTimer == TimerStart /\ [][TimerNext]_vars

-----------------------------------------------------------------------------
(* The sketches from power-on, without restarts and with a client in every *)
(* round of loop() that stays connected.  The dashboard page of the        *)
(* connection closed last is remembered for as long as the log stays as    *)
(* it is, so that two pages served from the same log can be compared.      *)

TwiceStart ==
  /\ sketch \in Sketches
  /\ pc = "setup"
  /\ logFile = <<>>
  /\ rtc = Clock(sketch)[1]
  /\ millis = 0
  /\ previousMillis = 0
  /\ currentTime = NoTime
  /\ boots = 0
  /\ conn = "None"
  /\ connected = FALSE
  /\ req = <<>>
  /\ rx = 0
  /\ currentLine = <<>>
  /\ request = <<>>
  /\ resp = <<>>
  /\ lastLog = NoLog
  /\ band = NoBand
  /\ color = ""
  /\ lastSetup = NoSetup
  /\ lastServe = NoServe
  /\ prevPage = NoPage(TRUE)
  /\ attempt = NoAttempt(0)

TwiceNext ==
  \/ setup
  \/ Tick
  \/ AcceptClient
  \/ ReadChar
  \/ ClientStop
  \/ LogInterval

SpecTwice == TwiceStart /\ [][TwiceNext]_vars

-----------------------------------------------------------------------------
(* Vocabulary of the properties, defined without the operators above.      *)

IsPrefix(a, b) == Len(a) <= Len(b) /\ SubSeq(b, 1, Len(a)) = a

\* The comma-separated fields of a text
RECURSIVE Fields(_)
Fields(str) ==
  IF \A i \in 1..Len(str) : str[i] # "," THEN <<str>>
  ELSE LET i == CHOOSE k \in 1..Len(str) :
                  str[k] = "," /\ \A j \in 1..(k - 1) : str[j] # ","
       IN  <<SubSeq(str, 1, i - 1)>> \o Fields(SubSeq(str, i + 1, Len(str)))

\* The cells of a row put back together with commas
RECURSIVE JoinCells(_)
JoinCells(cells) ==
  IF Len(cells) = 0 THEN <<>>
  ELSE IF Len(cells) = 1 THEN cells[1]
  ELSE cells[1] \o <<",">> \o JoinCells(Tail(cells))

\* A line of the file without the "\r" that println put at its end
StripCR(line) ==
  IF Len(line) > 0 /\ line[Len(line)] = "\r"
  THEN SubSeq(line, 1, Len(line) - 1)
  ELSE line

\* The start line of a request: its characters before the first "\n"
StartLine(text) ==
  IF \A i \in 1..Len(text) : text[i] # "\n" THEN text
  ELSE LET i == CHOOSE k \in 1..Len(text) :
                  text[k] = "\n" /\ \A j \in 1..(k - 1) : text[j] # "\n"
       IN  SubSeq(text, 1, i - 1)

\* The text holds an empty line: a "\n" with nothing but "\r" between it
\* and the "\n" before it (or the start)
HoldsEmptyLine(text) ==
  \E k \in 1..Len(text) :
    /\ text[k] = "\n"
    /\ \E b \in 0..(k - 1) :
         /\ b = 0 \/ text[b] = "\n"
         /\ \A j \in (b + 1)..(k - 1) : text[j] = "\r"

\* Some value read for a logging attempt is not-a-number, or the water
\* probe (where there is one) reports the disconnected sentinel
AnyValueInvalid(s, r) ==
  \/ isnan(r.h)
  \/ isnan(r.t)
  \/ /\ DualSensor(s)
     /\ \/ isnan(readTemperatureF(r))
        \/ isnan(computeHeatIndex(r.t, r.h, FALSE))
        \/ isnan(computeHeatIndex(readTemperatureF(r), r.h, TRUE))
        \/ r.w = DEVICE_DISCONNECTED_C

HeaderCount(file) ==
  Cardinality({i \in 1..Len(file) : file[i] = headerLine(sketch)})

colDate == <<"D", "a", "t", "e">>

colTime == <<"T", "i", "m", "e">>

colHumidityPct ==
  <<"H", "u", "m", "i", "d", "i",
    "t", "y", " ", "(", "%", ")">>

colAirC == <<"A", "i", "r", " ", "T", "e", "m", "p", " ", "(", "C", ")">>

colAirF == <<"A", "i", "r", " ", "T", "e", "m", "p", " ", "(", "F", ")">>

colHeatIndexC ==
  <<"H", "e", "a", "t", " ", "I", "n",
    "d", "e", "x", " ", "(", "C", ")">>

colHeatIndexF ==
  <<"H", "e", "a", "t", " ", "I", "n",
    "d", "e", "x", " ", "(", "F", ")">>

colHIC == <<"H", "I", " ", "(", "C", ")">>

colHIF == <<"H", "I", " ", "(", "F", ")">>

colWaterC ==
  <<"W", "a", "t", "e", "r", " ", "T",
    "e", "m", "p", " ", "(", "C", ")">>

colTemperature == <<"T", "e", "m", "p", "e", "r", "a", "t", "u", "r", "e">>

colHumidity == <<"H", "u", "m", "i", "d", "i", "t", "y">>

\* The text a column of the given name holds for the clock value t and
\* the reading r
ColumnValue(s, name, t, r) ==
  CASE name = colDate ->
         IF DualSensor(s) THEN timestampDate(t) ELSE printDate(t)
    [] name = colTime ->
         IF DualSensor(s) THEN timestampTime(t) ELSE printTime(t)
    [] name \in {colHumidityPct, colHumidity} -> printFloat(r.h)
    [] name \in {colAirC, colTemperature} -> printFloat(r.t)
    [] name = colAirF -> printFloat(readTemperatureF(r))
    [] name \in {colHeatIndexC, colHIC} ->
         printFloat(computeHeatIndex(r.t, r.h, FALSE))
    [] name \in {colHeatIndexF, colHIF} ->
         printFloat(computeHeatIndex(readTemperatureF(r), r.h, TRUE))
    [] name = colWaterC -> printFloat(r.w)

\* The text holds the pattern somewhere
ContainsText(text, pat) ==
  \E i \in 0..(Len(text) - Len(pat)) : SubSeq(text, i + 1, i + Len(pat)) = pat

\* The run of listed days the clock's date is in, and the place of a date
\* in it: the difference of two places is a number of calendar days
RunOfNow ==
  CHOOSE run \in DayRuns : \E k \in 1..Len(run) : run[k] = <<rtc.y, rtc.m, rtc.d>>

NowIndex ==
  CHOOSE k \in 1..Len(RunOfNow) : RunOfNow[k] = <<rtc.y, rtc.m, rtc.d>>

DateText(day) == timestampDate(AtDay(day, 0, 0, 0))

DaysBeforeNow(line) ==
  NowIndex - (CHOOSE i \in 1..Len(RunOfNow) :
                DateText(RunOfNow[i]) = Fields(line)[1])

ErrorShown(sent) ==
  \E i \in 1..Len(sent) : \E j \in 1..Len(openError(sketch)) :
    sent[i] = openError(sketch)[j]

IsDashboardPage(sent) == \E i \in 1..Len(sent) : sent[i].tag = "live"

IsHtmlContentType(text) ==
  text \in {"Content-Type: text/html", "Content-type:text/html"}

ConnectionSteps ==
  {<<"None", "AwaitingHeaderEnd">>, <<"AwaitingHeaderEnd", "Responding">>,
   <<"Responding", "Closed">>, <<"AwaitingHeaderEnd", "Closed">>,
   <<"AwaitingHeaderEnd", "None">>, <<"Responding", "None">>,
   <<"Closed", "None">>}

TableRows(sent) == SelectSeq(sent, LAMBDA item : item.tag = "tr")

\* The content of a file: its lines, each ended by "\n"
RECURSIVE ContentOf(_)
ContentOf(file) ==
  IF Len(file) = 0 THEN <<>>
  ELSE ContentOf(SubSeq(file, 1, Len(file) - 1))
         \o file[Len(file)] \o <<"\n">>

\* Where the blank line that ends the headers of a response is
BlankAt(sent) ==
  CHOOSE i \in 1..Len(sent) :
    /\ sent[i] = Text("")
    /\ \A j \in 1..(i - 1) : sent[j] # Text("")

HasBlank(sent) == \E i \in 1..Len(sent) : sent[i] = Text("")

HeadersOf(sent) == SubSeq(sent, 2, BlankAt(sent) - 1)

BodyOf(sent) == SubSeq(sent, BlankAt(sent) + 1, Len(sent))

HasHeader(sent, line) ==
  \E i \in 1..Len(HeadersOf(sent)) : HeadersOf(sent)[i] = Text(line)

AttachmentHeader ==
  "Content-Disposition: attachment; filename=SMART_Node_Data.txt"

IsDownloadRequest(text) == ContainsText(StartLine(text), downloadToken)

\* Everything of a page but its live-readings section
RestOfPage(sent) == SelectSeq(sent, LAMBDA item : item.tag # "live")

SameDate(t1, t2) == t1.y = t2.y /\ t1.m = t2.m /\ t1.d = t2.d

\* A dashboard page has just been sent, an earlier one is remembered, and
\* the log is as it was when that one was sent
SecondPageOfSameLog ==
  /\ prevPage.set
  /\ lastServe.done
  /\ IsDashboardPage(resp)
  /\ prevPage.file = logFile

\* One of the two heat indices derived from the reading is not-a-number
HeatIndexInvalid(r) ==
  \/ isnan(computeHeatIndex(r.t, r.h, FALSE))
  \/ isnan(computeHeatIndex(readTemperatureF(r), r.h, TRUE))

NanText == <<"n", "a", "n">>

\* The heat-index fields of a line of the dual-sensor sketches' log
HeatIndexFields(line) ==
  LET fields == Fields(StripCR(line))
  IN  IF Len(fields) >= 7 THEN {fields[6], fields[7]} ELSE {}

DigitChars == {"0", "1", "2", "3", "4", "5", "6", "7", "8", "9"}

\* The text has the form HH:MM:SS
IsHHMMSS(text) ==
  /\ Len(text) = 8
  /\ text[3] = ":" /\ text[6] = ":"
  /\ \A i \in {1, 2, 4, 5, 7, 8} : text[i] \in DigitChars

\* A line of the file is complete: println has ended it
CompleteLine(line) == Len(line) > 0 /\ line[Len(line)] = "\r"

\* The initialization failures that are fatal
FatalFailures == {"clock", "storage", "wireless", "logfile"}

\* The texts that tell the reader of a page that the log did not open
OpenErrorTexts ==
  {"<p>Error opening datalog.csv</p>",
   "<tr><td colspan='8'>Error opening datalog.csv</td></tr>"}

ShowsOpenError(sent) ==
  \E i \in 1..Len(sent) :
    sent[i].tag = "text" /\ sent[i].text \in OpenErrorTexts

\* The texts that close the table of a page
TableCloseTexts == {"</table>", "</table></body></html>"}

\* The page is sent to its end: its table is closed after everything else
\* of the table
TableClosed(sent) ==
  \E i \in 1..Len(sent) :
    /\ sent[i].tag = "text" /\ sent[i].text \in TableCloseTexts
    /\ \A j \in (i + 1)..Len(sent) :
         sent[j].tag = "text" /\ sent[j].text \notin OpenErrorTexts

\* A response is complete: a page sent to the end of its table, or a
\* head with a body of one piece (the file, or the error text)
ResponseComplete(sent) ==
  /\ sent # <<>>
  /\ IF IsDashboardPage(sent) THEN TableClosed(sent)
     ELSE HasBlank(sent) /\ Len(BodyOf(sent)) = 1

-----------------------------------------------------------------------------
(* C1.  In every sketch, when a logging interval elapses and a value read  *)
(* for it is not-a-number or the water probe reports the disconnected      *)
(* sentinel, no record is appended: the log has as many lines after the    *)
(* loop iteration as before it.                                            *)
C1_NoRecordOnInvalidReading ==
  (lastLog.attempted /\ AnyValueInvalid(sketch, lastLog.r))
    => Len(logFile) = Len(lastLog.before)

(* C2.  In every sketch, after any number of startups against the same     *)
(* non-empty log file the file holds exactly one header line, and it is    *)
(* the first line.                                                         *)
C2_HeaderOnce ==
  (pc # "setup" /\ Len(logFile) > 0)
    => /\ HeaderCount(logFile) = 1
       /\ logFile[1] = headerLine(sketch)

(* C3.  In every sketch, when a logging interval elapses, every value is   *)
(* valid and the log file opens, exactly one line is appended, and it has  *)
(* as many comma-separated fields as the sketch's header, each holding     *)
(* the quantity its header column names.                                   *)
C3_OneWellFormedRecord ==
  (lastLog.attempted /\ lastLog.opened
     /\ ~AnyValueInvalid(sketch, lastLog.r))
    => /\ Len(logFile) = Len(lastLog.before) + 1
       /\ SubSeq(logFile, 1, Len(lastLog.before)) = lastLog.before
       /\ LET columns == Fields(headerText(sketch))
              fields  == Fields(StripCR(logFile[Len(logFile)]))
          IN  /\ Len(fields) = Len(columns)
              /\ \A k \in 1..Len(columns) :
                   fields[k] = ColumnValue(sketch, columns[k], lastLog.t,
                                           lastLog.r)

C3_Witness ==
  /\ lastLog.attempted
  /\ lastLog.opened
  /\ ~AnyValueInvalid(sketch, lastLog.r)
  /\ Len(logFile) = Len(lastLog.before) + 1

(* C4.  The log is append-only across startups, served requests and        *)
(* logging intervals: the log before a step is a prefix of the log after   *)
(* it, a step adds at most one line, and within a loop iteration only the  *)
(* logging part writes.                                                    *)
C4_AppendOnly ==
  [][/\ IsPrefix(logFile, logFile')
     /\ Len(logFile') <= Len(logFile) + 1
     /\ logFile' # logFile => pc \in {"setup", "log"}]_vars

C4_Witness ==
  /\ boots >= 1
  /\ Len(logFile) >= 2
  /\ conn = "Closed"
  /\ resp # <<>>

(* C5.  In every sketch, the dashboard's log table never holds the file's  *)
(* header line as a data row.                                              *)
C5_HeaderNeverARow ==
  \A i \in 1..Len(resp) :
    resp[i].tag = "tr" => JoinCells(resp[i].cells) # headerLine(sketch)

(* C6.  In the 7-day sketch a log row is rendered if and only if its date  *)
(* is at most 7 calendar days before the clock's date, whatever the time   *)
(* of day: the rows of the table are the rows of the file dated 0 to 7     *)
(* days before now, in file order.  With rows dated 2025-06-01 and         *)
(* 2025-06-02, both are shown on 2025-06-03 and the first is not shown on  *)
(* 2025-06-10.                                                             *)
C6_SevenDayWindow ==
  (sketch = "SevenDay" /\ resp # <<>> /\ ~ErrorShown(resp))
    => LET shown == SelectSeq(Tail(logFile),
                              LAMBDA line : DaysBeforeNow(line) <= 7)
           first == Fields(logFile[2])[1]
           second == Fields(logFile[3])[1]
           today == <<rtc.y, rtc.m, rtc.d>>
       IN  /\ TableRows(resp) = [i \in 1..Len(shown) |-> Row(Fields(shown[i]))]
           /\ (/\ first = DateText(<<2025, 6, 1>>)
               /\ second = DateText(<<2025, 6, 2>>)
               /\ today = <<2025, 6, 3>>)
                => Len(TableRows(resp)) = 2
           /\ (/\ first = DateText(<<2025, 6, 1>>)
               /\ today = <<2025, 6, 10>>)
                => \A i \in 1..Len(resp) :
                     resp[i].tag = "tr" => resp[i].cells[1] # first

C6_Witness ==
  /\ sketch = "SevenDay"
  /\ conn = "Responding"
  /\ Len(logFile) = 3
  /\ DaysBeforeNow(logFile[2]) = 8
  /\ DaysBeforeNow(logFile[3]) = 7
  /\ rtc.hh = 23
  /\ Len(TableRows(resp)) = 1

(* C7.  colorIndicator returns "green" if and only if the value is within  *)
(* the green band, bounds included; otherwise "orange" if and only if it   *)
(* is within the yellow band, bounds included; otherwise "red".            *)
C7_ColorBands ==
  color # ""
    => LET v == band.value
           Within(lo, hi) == ~v.nan /\ lo.c <= v.c /\ v.c <= hi.c
           green == Within(band.greenMin, band.greenMax)
           yellow == Within(band.yellowMin, band.yellowMax)
       IN  /\ color \in {"green", "orange", "red"}
           /\ color = "green" <=> green
           /\ color = "orange" <=> (~green /\ yellow)
           /\ color = "red" <=> (~green /\ ~yellow)

C7_Witness ==
  /\ color = "green"
  /\ band.value = band.greenMax
  /\ band.greenMin.c < band.greenMax.c
  /\ band.yellowMin.c <= band.value.c
  /\ band.value.c <= band.yellowMax.c

(* C8.  In every sketch nothing is sent on a connection before an empty    *)
(* line has been read from it; the connection goes from AwaitingHeaderEnd  *)
(* to Responding to Closed and never back; at most one response is sent    *)
(* per connection.                                                         *)
C8_ResponseAfterHeaderEnd ==
  [][/\ resp' # <<>> => HoldsEmptyLine(SubSeq(req', 1, rx'))
     /\ conn' # conn => <<conn, conn'>> \in ConnectionSteps
     /\ resp' # resp
          => \/ resp' = <<>>
             \/ /\ resp = <<>>
                /\ conn = "AwaitingHeaderEnd"
                /\ conn' = "Responding"]_vars

C8_Witness ==
  /\ conn = "Closed"
  /\ resp # <<>>
  /\ req = reqDownload
  /\ rx = Len(req)

(* C9.  In every sketch a request whose start line does not name the       *)
(* download path is answered with a 200 status line, a Content-Type:       *)
(* text/html header, a blank line and then the dashboard body, in that     *)
(* order.                                                                  *)
C9_DashboardHead ==
  (resp # <<>> /\ ~ContainsText(StartLine(req), downloadToken))
    => /\ Len(resp) > 3
       /\ resp[1] = Text("HTTP/1.1 200 OK")
       /\ resp[2].tag = "text" /\ IsHtmlContentType(resp[2].text)
       /\ resp[3] = Text("")
       /\ IsDashboardPage(SubSeq(resp, 4, Len(resp)))

(* C10.  In the download sketch the log is served as a download if and     *)
(* only if the request's start line holds "GET /download"; any other       *)
(* request gets the dashboard page, whatever its later lines hold.         *)
C10_RouteByStartLine ==
  (sketch = "Download" /\ resp # <<>>)
    => (IsDashboardPage(resp)
          <=> ~ContainsText(StartLine(req), downloadToken))

(* C11.  In the download sketch a download request is answered with status *)
(* 200, a Content-Disposition: attachment header and a body equal byte for *)
(* byte to the log file's content at that moment, or, when the file does   *)
(* not open, with status 500 and a plain-text error body; the log file is  *)
(* the same after the answer as before it.                                 *)
C11_DownloadAnswer ==
  (sketch = "Download" /\ lastServe.done /\ IsDownloadRequest(req))
    => /\ logFile = lastServe.before
       /\ HasBlank(resp)
       /\ IF lastServe.opened
          THEN /\ resp[1] = Text("HTTP/1.1 200 OK")
               /\ HasHeader(resp, AttachmentHeader)
               /\ BodyOf(resp) = <<Raw(ContentOf(lastServe.before))>>
          ELSE /\ resp[1] = Text("HTTP/1.1 500 Internal Server Error")
               /\ HasHeader(resp, "Content-Type: text/plain")
               /\ Len(BodyOf(resp)) = 1
               /\ BodyOf(resp)[1].tag = "text"
               /\ BodyOf(resp)[1].text # ""

C11_Witness ==
  /\ sketch = "Download"
  /\ lastServe.done
  /\ lastServe.opened
  /\ req = reqDownload
  /\ Len(logFile) >= 2
  /\ resp[Len(resp)].tag = "raw"

(* C12.  In every sketch, when the log file does not open while the        *)
(* dashboard is served, the page holds a visible error message in place    *)
(* of the table's rows and is still sent to its end, after which the       *)
(* connection is closed.                                                   *)
C12_ErrorShownWhenLogUnreadable ==
  (lastServe.done /\ ~lastServe.opened /\ IsDashboardPage(resp))
    => /\ ShowsOpenError(resp)
       /\ TableRows(resp) = <<>>
       /\ TableClosed(resp)
       /\ pc = "stop"

(* C13.  In every sketch a fatal initialization failure (clock module,     *)
(* storage device or wireless module missing, log file not created) halts  *)
(* the device in setup: the loop is not entered, and a halted device       *)
(* serves no connection, appends no record and does not try again.         *)
C13_FatalFailureHalts ==
  [][/\ (lastSetup'.done /\ lastSetup'.failed \cap FatalFailures # {})
          => pc' = "halted"
     /\ (pc = "halted" /\ boots' = boots)
          => /\ pc' = "halted"
             /\ logFile' = logFile
             /\ conn' = "None"
             /\ resp' = <<>>]_vars

(* C14 as claimed.  Serving the dashboard twice with the log file and the  *)
(* sensor readings unchanged between the two requests yields the same      *)
(* sequence of table rows both times.                                      *)
C14_SameRowsTwice ==
  (SecondPageOfSameLog /\ prevPage.r = lastServe.r)
    => TableRows(resp) = TableRows(prevPage.sent)

(* C14, amended.  Serving the dashboard twice with the log file unchanged, *)
(* the file opening both times or neither time and, in the 7-day sketch,   *)
(* the clock at the same calendar date both times yields the same table    *)
(* rows and the same page apart from the live-readings section, whatever   *)
(* the sensors read.                                                       *)
C14_SameRowsSameDay ==
  (/\ SecondPageOfSameLog
   /\ prevPage.opened = lastServe.opened
   /\ sketch = "SevenDay" => SameDate(prevPage.now, rtc))
    => /\ TableRows(resp) = TableRows(prevPage.sent)
       /\ RestOfPage(resp) = prevPage.sent

C14_Witness ==
  /\ SecondPageOfSameLog
  /\ sketch = "SevenDay"
  /\ prevPage.opened
  /\ lastServe.opened
  /\ SameDate(prevPage.now, rtc)
  /\ prevPage.r # lastServe.r
  /\ Len(logFile) >= 2
  /\ Len(TableRows(resp)) = Len(logFile) - 1

(* C15.  The interval test is right across the overflow of the counter:    *)
(* with less than 2^32 ms really passed since the previous attempt, a      *)
(* round of loop() makes a logging attempt exactly when at least one       *)
(* interval has really passed, also when the counter wrapped in between.   *)
C15_IntervalAcrossOverflow ==
  [][(pc = "log" /\ pc' = "loop" /\ attempt.since < Wrap)
       => (lastLog'.attempted <=> attempt.since >= interval(sketch))]_vars

C15_Witness ==
  /\ lastLog.attempted
  /\ pc = "loop"
  /\ millis = previousMillis
  /\ millis < interval(sketch)

(* C16.  Sampler and Presenter never run at the same time: the logging     *)
(* part of loop() is reached only with the connection of that round        *)
(* closed (or none accepted), no line is appended while a connection is    *)
(* being served, and what is rendered or downloaded is made of complete    *)
(* lines of the file only.                                                 *)
C16_SamplerPresenterApart ==
  [][/\ pc' = "log" => conn' \in {"None", "Closed"}
     /\ conn \in {"AwaitingHeaderEnd", "Responding"} => logFile' = logFile
     /\ lastServe'.done
          => /\ \A i \in 1..Len(lastServe'.before) :
                  CompleteLine(lastServe'.before[i])
             /\ \A i \in 1..Len(resp') :
                  resp'[i].tag = "tr"
                    => \E k \in 1..Len(lastServe'.before) :
                         JoinCells(resp'[i].cells) = lastServe'.before[k]]_vars

C16_Witness ==
  /\ pc = "log"
  /\ conn = "Closed"
  /\ Len(TableRows(resp)) >= 1
  /\ attempt.since >= interval(sketch)
  /\ Len(logFile) < MaxLines

(* C17.  In every sketch a client that stays connected and never sends an  *)
(* empty line stalls the loop: while its connection awaits the end of the  *)
(* headers the sketch stays in the read loop, whatever time passes; no     *)
(* record is appended, no logging attempt is made and no other connection  *)
(* is accepted.                                                            *)
C17_SilentClientStalls ==
  [][/\ conn' = "AwaitingHeaderEnd" => pc' = "client"
     /\ (/\ conn = "AwaitingHeaderEnd"
         /\ connected
         /\ ~HoldsEmptyLine(req)
         /\ boots' = boots)
          => /\ conn' = "AwaitingHeaderEnd"
             /\ pc' = "client"
             /\ req' = req
             /\ rx' >= rx
             /\ logFile' = logFile
             /\ previousMillis' = previousMillis]_vars

C17_Witness ==
  /\ conn = "AwaitingHeaderEnd"
  /\ connected
  /\ ~HoldsEmptyLine(req)
  /\ rx = Len(req)
  /\ attempt.since >= 2 * interval(sketch)
  /\ Len(logFile) < MaxLines

(* C18 as claimed.  In every sketch every accepted connection is sent a    *)
(* complete response before it is closed, also when the client             *)
(* disconnects before the empty line that ends its headers.                *)
C18_ResponseBeforeClose == conn = "Closed" => ResponseComplete(resp)

(* C18, amended.  In every sketch a connection on which the sketch has     *)
(* read the empty line that ends the headers is sent a complete response   *)
(* before it is closed; a connection whose client disconnects before that  *)
(* is closed with nothing sent.  No connection is closed with part of a    *)
(* response.                                                               *)
C18_ResponseOrNothingBeforeClose ==
  conn = "Closed"
    => IF HoldsEmptyLine(SubSeq(req, 1, rx)) THEN ResponseComplete(resp)
       ELSE resp = <<>>

C18_Witness ==
  /\ conn = "Closed"
  /\ req = reqRoot
  /\ rx = Len(req)
  /\ ResponseComplete(resp)
  /\ Len(TableRows(resp)) >= 1

C20_NoEarlyRetry ==
  [][/\ (lastLog'.attempted /\ attempt'.outcome = "rejected")
          => previousMillis' = millis'
     /\ (lastLog'.attempted /\ attempt.outcome = "rejected")
          => attempt.since >= interval(sketch)]_vars

C20_Witness ==
  /\ pc = "log"
  /\ attempt.outcome = "rejected"
  /\ attempt.since >= interval(sketch)
  /\ intervalElapsed(sketch, millis, previousMillis)
  /\ Len(logFile) < MaxLines

(* C21.  When the log file does not open for appending at a logging        *)
(* interval the sample is discarded: the log is left as it was, the        *)
(* interval timer is set as after a write, the next attempt comes a full   *)
(* interval later, and a line that a later round appends holds that        *)
(* round's own clock value and reading.                                    *)
C21_UnopenedSampleDiscarded ==
  [][(pc = "log" /\ pc' = "loop")
       => /\ (lastLog'.attempted /\ ~lastLog'.opened)
               => /\ logFile' = logFile
                  /\ previousMillis' = millis'
          /\ (lastLog'.attempted /\ attempt.outcome = "unopened")
               => attempt.since >= interval(sketch)
          /\ logFile' # logFile
               => /\ lastLog'.attempted
                  /\ lastLog'.opened
                  /\ Len(logFile') = Len(logFile) + 1
                  /\ LET columns == Fields(headerText(sketch))
                         fields  == Fields(StripCR(logFile'[Len(logFile')]))
                     IN  \A k \in 1..Len(columns) :
                           fields[k] = ColumnValue(sketch, columns[k],
                                                   lastLog'.t, lastLog'.r)
    ]_vars

C21_Witness ==
  /\ lastLog.attempted
  /\ ~lastLog.opened
  /\ ~AnyValueInvalid(sketch, lastLog.r)
  /\ Len(logFile) >= 1
  /\ logFile = lastLog.before
  /\ previousMillis = millis

(* C22.  In every sketch each row of the log table has one cell for each   *)
(* comma-separated field of its line of the file, in order: a line with n  *)
(* commas gives n + 1 cells, and a record with as many fields as the       *)
(* header gives as many cells as the table has columns.                    *)
C22_CellPerField ==
  (lastServe.done /\ IsDashboardPage(resp))
    => \A i \in 1..Len(resp) :
         resp[i].tag = "tr"
           => \E k \in 1..Len(lastServe.before) :
                LET line == lastServe.before[k]
                IN  /\ JoinCells(resp[i].cells) = line
                    /\ resp[i].cells = Fields(line)
                    /\ Len(Fields(line)) = Len(Fields(headerText(sketch)))
                         => Len(resp[i].cells)
                              = Len(Fields(headerText(sketch)))

(* C23.  In every sketch the time field of every record of the log has     *)
(* the form HH:MM:SS: three two-digit, zero-padded numbers with colons     *)
(* between them, also for hours, minutes or seconds below 10.              *)
C23_TimeFieldPadded ==
  \A i \in 1..Len(logFile) :
    logFile[i] # headerLine(sketch)
      => /\ Len(Fields(logFile[i])) >= 2
         /\ IsHHMMSS(Fields(logFile[i])[2])

(* C24.  Serving a request, dashboard or download, changes neither the     *)
(* log file nor the interval timer: from the accepting of a connection to  *)
(* its closing no step changes the log or previousMillis, and the log is   *)
(* after a response what it was before it, the sample taken for the page   *)
(* not written.                                                            *)
C24_ServingChangesNothing ==
  [][/\ ((pc \in {"client", "stop"} \/ (pc = "loop" /\ pc' = "client"))
           /\ boots' = boots)
          => /\ logFile' = logFile
             /\ previousMillis' = previousMillis
     /\ lastServe'.done => logFile' = lastServe'.before
    ]_vars

C24_Witness ==
  /\ conn = "Closed"
  /\ pc = "log"
  /\ IsDashboardPage(resp)
  /\ Len(logFile) >= 2
  /\ previousMillis > 0
  /\ attempt.since >= interval(sketch)

(* C25.  Missed intervals are never made up: a round of loop() appends at  *)
(* most one record, a logging attempt restarts the timer from the current  *)
(* time, two consecutive attempts of a boot are at least an interval       *)
(* apart, and a boot has made no more attempts than the intervals that     *)
(* fit in the time since it started (the attempts are counted up to       *)
(* MaxCount).                                                              *)
C25_NoCatchUp ==
  [][/\ Len(logFile') <= Len(logFile) + 1
     /\ (pc = "log" /\ pc' = "loop" /\ lastLog'.attempted)
          => /\ previousMillis' = millis'
             /\ attempt'.since = 0
             /\ attempt.count < MaxCount
                  => attempt'.count = attempt.count + 1
             /\ attempt.count >= 1 => attempt.since >= interval(sketch)
     /\ attempt'.count # attempt.count
          => \/ pc = "log" /\ pc' = "loop" /\ lastLog'.attempted
             \/ attempt'.count = 0
     /\ attempt'.count * interval(sketch) <= millis'
    ]_vars

\* The first attempt of a boot, made when two intervals and more have
\* passed: one record, and the timer at the current time
C25_Witness ==
  /\ lastLog.attempted
  /\ attempt.count = 1
  /\ millis >= 2 * interval(sketch)
  /\ previousMillis = millis
  /\ Len(logFile) = Len(lastLog.before) + 1

-----------------------------------------------------------------------------
(* The dual-sensor sketches from a power-on at the last instant of Clock,   *)
(* with time that never ends and without restarts.  The instants after     *)
(* the last one of Clock are not told apart by the RTC of the model;       *)
(* millis() goes on, around its overflow.  A client asks for the           *)
(* dashboard or stays silent; at the logging attempts the hygrometer       *)
(* fails or works and the other sensors work.                              *)

\* How far millis() advances in one step after the last instant of Clock
LateStep == Wrap \div 2

\* Time passes after the last instant of Clock, while the sketch is at the
\* top of loop() or waits for a character from a client
LateTick ==
  /\ \/ pc = "loop"
     \/ pc = "client" /\ rx = Len(req)
  /\ ClockIndex(sketch, rtc) = Len(Clock(sketch))
  /\ millis' = (millis + LateStep) % Wrap
  /\ attempt' = [attempt EXCEPT
                   !.since = IF attempt.since + LateStep > Wrap THEN Wrap
                             ELSE attempt.since + LateStep]
  /\ lastLog' = NoLog
  /\ lastSetup' = NoSetup
  /\ UNCHANGED <<band, color, lastServe, prevPage>>
  /\ UNCHANGED <<sketch, pc, logFile, rtc, previousMillis, currentTime,
                 boots, conn, connected, req, rx, currentLine, request,
                 resp>>

LiveStart ==
  /\ sketch \in {s \in Sketches : DualSensor(s)}
  /\ pc = "setup"
  /\ logFile = <<>>
  /\ rtc = Clock(sketch)[Len(Clock(sketch))]
  /\ millis = 0
  /\ previousMillis = 0
  /\ currentTime = NoTime
  /\ boots = 0
  /\ conn = "None"
  /\ connected = FALSE
  /\ req = <<>>
  /\ rx = 0
  /\ currentLine = <<>>
  /\ request = <<>>
  /\ resp = <<>>
  /\ lastLog = NoLog
  /\ band = NoBand
  /\ color = ""
  /\ lastSetup = NoSetup
  /\ lastServe = NoServe
  /\ prevPage = NoPage(FALSE)
  /\ attempt = NoAttempt(0)

LiveRequests == {reqRoot, reqSilent}

LiveReadings(s) ==
  {r \in Readings(s) : r.t = Float(2200) /\ r.w = Float(1800)}

LiveAccept == AcceptClient /\ req' \in LiveRequests

LiveLog ==
  /\ LogInterval
  /\ lastLog'.attempted => lastLog'.r \in LiveReadings(sketch)

LiveNext ==
  \/ setup
  \/ LateTick
  \/ LiveAccept
  \/ NoClient
  \/ ReadChar
  \/ ClientDisconnect
  \/ ClientStop
  \/ LiveLog

\* A step of the sketch, or of the client it waits for
Round ==
  \/ setup
  \/ LiveAccept
  \/ NoClient
  \/ ReadChar
  \/ ClientDisconnect
  \/ ClientStop
  \/ LiveLog

\* The board runs setup() and then loop() again and again: every round
\* looks for a client, reads what a client has sent, closes the
\* connection and comes to the interval check; a client sends the rest of
\* its request or disconnects.  Time passes.
Scheduling ==
  /\ WF_vars(Round)
  /\ SF_vars(LateTick)

\* What is supposed of the sensors and of the card: of the logging
\* attempts that go on being made, some find valid readings and a log
\* file that opens.
Surroundings == SF_vars(LiveLog /\ attempt'.outcome = "written")

SpecLive == LiveStart /\ [][LiveNext]_vars /\ Scheduling /\ Surroundings

C27_HeaderTextNeverARow ==
  (sketch # "SMART" /\ lastServe.done /\ IsDashboardPage(resp))
    => /\ \A i \in 1..Len(resp) :
            resp[i].tag = "tr"
              => \A k \in 1..Len(lastServe.before) :
                   lastServe.before[k] = headerLine(sketch)
                     => JoinCells(resp[i].cells) # lastServe.before[k]
       /\ (~DualSensor(sketch) /\ lastServe.opened)
            => Len(TableRows(resp))
                 = Cardinality({k \in 1..Len(lastServe.before) :
                                  lastServe.before[k] # headerLine(sketch)})

\* A page with a row, served after a restart from a file whose last line
\* is a header line written by that restart
C27_Witness ==
  /\ sketch # "SMART"
  /\ boots >= 1
  /\ lastServe.done
  /\ lastServe.opened
  /\ IsDashboardPage(resp)
  /\ Len(lastServe.before) >= 3
  /\ lastServe.before[Len(lastServe.before)] = headerLine(sketch)
  /\ lastServe.before[2] # headerLine(sketch)
  /\ Len(TableRows(resp)) = 1

====
